---- MODULE Spec2Model ----
(***************************************************************************)
(* A model of rust-basino: the Rust driver of the basino stack             *)
(* (src/stack.rs), circular queue (src/queue.rs) and Tiny BASIC IL         *)
(* interpreter (src/il.rs).                                                *)
(*                                                                         *)
(* The Rust methods are thin wrappers: each calls one primitive of the     *)
(* separately built libbasino (declared in src/lib.rs, extern "C") and     *)
(* translates the primitive's result code into a Result.  The wrappers     *)
(* are modelled from their code.  The primitives have no source in the     *)
(* crate; they are modelled from the specification, from the doc comments  *)
(* of their declarations and from what the crate's own tests assert.       *)
(***************************************************************************)
EXTENDS Integers, Sequences, FiniteSets, TLC

(***************************************************************************)
(* Bounds of the model.                                                    *)
(***************************************************************************)
\* largest `len` handed to Stack::new (the stack then holds len - 1 bytes)
MaxStackLen == 3
\* number of push/pop calls recorded after a Stack::new
MaxStackOps == 6
\* largest region length handed to Queue::new
MaxQueueLen == 4
\* number of successful puts recorded after a Queue::new
MaxQueuePuts == 7
\* largest byte-code region handed to Interpreter::new
MaxProgLen == 3
\* interpreter calls counted after an Interpreter::new: the count stays at
\* MaxCalls from the MaxCalls-th call on
MaxCalls == 3

(***************************************************************************)
(* Program constants.                                                      *)
(***************************************************************************)
\* usize and pointers are 16 bits wide on AVR
AddrSpace == 65536

\* the addresses the static buffers may be placed at
StackPtrs == {256}
QueuePtrs == {512}
CodePtrs == {768}

\* the bytes handed to push and put
StackVals == {5, 118}
QueueVals == {1, 2}

\* the opcodes of the IL: NO (no operation) and LB (push literal byte)
OpNO == 8
OpLB == 9
\* the bytes a byte-code region is made of: the terminator, the two
\* opcodes and 0x76, which is no opcode
CodeBytes == {0, OpNO, OpLB, 118}

VARIABLES
    stack,      \* the Stack struct (lib.rs): data, top_sentinel, bottom, top
    stackLive,  \* TRUE when the last Stack::new returned Ok
    smem,       \* the bytes of the array behind the stack, by address
    sres,       \* what the last stack call returned
    shist,      \* the push/pop calls made since the last Stack::new
    queue,      \* the QueueObj struct (lib.rs) and queue_len
    queueLive,  \* TRUE when the last Queue::new returned Ok
    qmem,       \* the bytes of the array behind the queue, by address
    qres,       \* what the last queue call returned
    qput,       \* the values of the successful puts since the last Queue::new
    qgot,       \* the values of the successful gets since the last Queue::new
    interp,     \* the Interpreter struct (il.rs)
    ilLive,     \* TRUE when the last Interpreter::new returned Ok
    code,       \* the byte-code array handed to Interpreter::new
    ires,       \* what the last interpreter call returned
    ilCalls,    \* calls made on the interpreter since Interpreter::new
    onlyGets,   \* TRUE when all of them were get_next_bytecode calls
    ranOk       \* TRUE when a run() of this interpreter has returned Ok

vars == <<stack, stackLive, smem, sres, shist,
          queue, queueLive, qmem, qres, qput, qgot,
          interp, ilLive, code, ires, ilCalls, onlyGets, ranOk>>

stackVars == <<stack, stackLive, smem, sres, shist>>
queueVars == <<queue, queueLive, qmem, qres, qput, qgot>>
ilVars == <<interp, ilLive, code, ires, ilCalls, onlyGets, ranOk>>

(***************************************************************************)
(* Stack: the primitives.                                                  *)
(***************************************************************************)
\* Stack { data, top_sentinel, bottom, top } before initialisation: all null
NullStack == [data |-> 0, top_sentinel |-> 0, bottom |-> 0, top |-> 0]

\* basino_stack_init(stack, top, bottom): "initializes with the permanent
\* bottom and maximum top.  It sets the current top and bottom to those
\* values"; top must be greater than bottom (16-bit comparison).
basino_stack_init(top, bottom) ==
    IF bottom >= top
    THEN [code |-> 2, stack |-> NullStack]
    ELSE [code |-> 0,
          stack |-> [data |-> bottom, top_sentinel |-> top,
                     bottom |-> bottom, top |-> top]]

\* basino_stack_push(stack, value): the current top starts at the maximum
\* top and moves towards bottom; no room is left when it has reached bottom.
basino_stack_push(st, mem, value) ==
    IF st.top = st.bottom
    THEN [code |-> 2, stack |-> st, mem |-> mem]
    ELSE [code |-> 0,
          stack |-> [st EXCEPT !.top = st.top - 1],
          mem |-> [mem EXCEPT ![st.top - 1] = value]]

\* basino_stack_pop(stack, result): returns the byte, *result is the code
basino_stack_pop(st, mem) ==
    IF st.top = st.top_sentinel
    THEN [result |-> 2, res |-> 0, stack |-> st]
    ELSE [result |-> 0, res |-> mem[st.top],
          stack |-> [st EXCEPT !.top = st.top + 1]]

basino_get_basino_stack_bottom(st) == st.bottom
basino_get_basino_stack_top(st) == st.top
basino_get_basino_stack_top_sentinel(st) == st.top_sentinel

(***************************************************************************)
(* Stack: the wrappers of src/stack.rs.                                    *)
(***************************************************************************)
\* a match of Stack::new without the arm for invalid arguments
StackNewKindUnmapped(res) ==
    CASE res = 0 -> "Ok"
      [] res = 1 -> "NullPointer"
      [] OTHER   -> "Unknown"

\* the match of Stack::new
StackNewKind(res) ==
    CASE res = 0 -> "Ok"
      [] res = 1 -> "NullPointer"
      [] res = 2 -> "InvalidArguments"
      [] OTHER   -> "Unknown"

\* a Stack::new that takes array + len, not array + len - 1, as the top
Stack_new_whole(array, len) ==
    LET stack_top_ptr == (array + len) % AddrSpace
        r == basino_stack_init(stack_top_ptr, array)
    IN  [kind |-> StackNewKind(r.code), stack |-> r.stack]

\* a Stack::new that returns its struct literal: the primitive has
\* initialised a copy
Stack_new_literal(array, len) ==
    LET len1 == (len - 1) % AddrSpace
        stack_top_ptr == (array + len1) % AddrSpace
        r == basino_stack_init(stack_top_ptr, array)
    IN  [kind |-> StackNewKind(r.code), stack |-> NullStack]

\* Stack::new(array, len)
Stack_new(array, len) ==
    LET len1 == (len - 1) % AddrSpace
        stack_top_ptr == (array + len1) % AddrSpace
        r == basino_stack_init(stack_top_ptr, array)
    IN  [kind |-> StackNewKind(r.code), stack |-> r.stack]

StackPushKindSwapped(res) ==
    CASE res = 0 -> "Ok"
      [] res = 1 -> "NullPointer"
      [] res = 2 -> "StackUnderflow"
      [] OTHER   -> "Unknown"

\* the match of Stack::push
StackPushKind(res) ==
    CASE res = 0 -> "Ok"
      [] res = 1 -> "NullPointer"
      [] res = 2 -> "StackOverflow"
      [] OTHER   -> "Unknown"

\* a Stack::push that stores the value at top whatever the primitive says
Stack_push_clobber(st, mem, value) ==
    LET r == basino_stack_push(st, mem, value)
    IN  [kind |-> StackPushKind(r.code), stack |-> r.stack,
         mem |-> [r.mem EXCEPT ![r.stack.top] = value]]

\* Stack::push(value)
Stack_push(st, mem, value) ==
    LET r == basino_stack_push(st, mem, value)
    IN  [kind |-> StackPushKind(r.code), stack |-> r.stack, mem |-> r.mem]

\* the match of Stack::pop
StackPopKind(result) ==
    CASE result = 0 -> "Ok"
      [] result = 1 -> "NullPointer"
      [] result = 2 -> "StackUnderflow"
      [] OTHER      -> "Unknown"

\* a Stack::pop that returns the result code in place of the byte
Stack_pop_status(st, mem) ==
    LET r == basino_stack_pop(st, mem)
    IN  [kind |-> StackPopKind(r.result), val |-> r.result, stack |-> r.stack]

\* a Stack::pop that moves top up whatever the primitive says
Stack_pop_unchecked(st, mem) ==
    LET r == basino_stack_pop(st, mem)
    IN  [kind |-> StackPopKind(r.result), val |-> r.res,
         stack |-> [st EXCEPT !.top = st.top + 1]]

\* Stack::pop()
Stack_pop(st, mem) ==
    LET r == basino_stack_pop(st, mem)
    IN  [kind |-> StackPopKind(r.result), val |-> r.res, stack |-> r.stack]

\* a Stack::size that subtracts top, not bottom: the number of bytes stored
Stack_size_occupancy(st) ==
    (basino_get_basino_stack_top_sentinel(st)
        - basino_get_basino_stack_top(st)) % AddrSpace

\* Stack::size()
Stack_size(st) ==
    (basino_get_basino_stack_top_sentinel(st)
        - basino_get_basino_stack_bottom(st)) % AddrSpace

(***************************************************************************)
(* Queue: the primitives.                                                  *)
(***************************************************************************)
NullQueue == [start |-> 0, end |-> 0, head |-> 0, last_head |-> 0,
              tail |-> 0, queue_len |-> 0]

\* the address after a, wrapping from end back to start
QueueNext(q, a) == IF a = q.end THEN q.start ELSE a + 1

\* basino_queue_init(queue, start, end): head and tail at start; the last
\* head is the slot before start, which is end
basino_queue_init(start, end) ==
    IF start > end
    THEN [code |-> 2, queue |-> NullQueue]
    ELSE [code |-> 0,
          queue |-> [start |-> start, end |-> end, head |-> start,
                     last_head |-> end, tail |-> start, queue_len |-> 0]]

\* basino_queue_put(queue, value): full when the tail has caught up with
\* the last head, the one slot kept free
basino_queue_put(q, mem, value) ==
    IF q.tail = q.last_head
    THEN [code |-> 2, queue |-> q, mem |-> mem]
    ELSE [code |-> 0,
          queue |-> [q EXCEPT !.tail = QueueNext(q, q.tail)],
          mem |-> [mem EXCEPT ![q.tail] = value]]

\* basino_queue_get(queue, result): returns the byte, *result is the code
basino_queue_get(q, mem) ==
    IF q.head = q.tail
    THEN [result |-> 2, res |-> 0, queue |-> q]
    ELSE [result |-> 0, res |-> mem[q.head],
          queue |-> [q EXCEPT !.head = QueueNext(q, q.head),
                              !.last_head = q.head]]

\* basino_queue_get_queue_start / _end / _head / _last_head / _tail
\* (queue, result): return the field, *result is the code
basino_queue_get_queue_start(q) == [result |-> 0, res |-> q.start]
basino_queue_get_queue_end(q) == [result |-> 0, res |-> q.end]
basino_queue_get_head(q) == [result |-> 0, res |-> q.head]
basino_queue_get_last_head(q) == [result |-> 0, res |-> q.last_head]
basino_queue_get_tail(q) == [result |-> 0, res |-> q.tail]

(***************************************************************************)
(* Queue: the wrappers of src/queue.rs.                                    *)
(***************************************************************************)
\* the match of Queue::new
QueueNewKind(res) ==
    CASE res = 0 -> "Ok"
      [] res = 1 -> "NullPointer"
      [] res = 2 -> "InvalidArguments"
      [] OTHER   -> "Unknown"

\* a Queue::new that takes start + len, not start + len - 1, as the end
Queue_new_whole(queue_start, len) ==
    LET queue_end == (queue_start + len) % AddrSpace
        r == basino_queue_init(queue_start, queue_end)
    IN  [kind |-> QueueNewKind(r.code),
         queue |-> [r.queue EXCEPT !.queue_len = len]]

\* Queue::new(queue_array)
Queue_new(queue_start, len) ==
    LET queue_end == (queue_start + len - 1) % AddrSpace
        r == basino_queue_init(queue_start, queue_end)
    IN  [kind |-> QueueNewKind(r.code),
         queue |-> [r.queue EXCEPT !.queue_len = len]]

\* a match of Queue::put without the arm for a full queue
QueuePutKindUnmapped(result) ==
    CASE result = 0 -> "Ok"
      [] result = 1 -> "NullPointer"
      [] OTHER      -> "Unknown"

\* the match of Queue::put
QueuePutKind(result) ==
    CASE result = 0 -> "Ok"
      [] result = 1 -> "NullPointer"
      [] result = 2 -> "QueueFull"
      [] OTHER      -> "Unknown"

\* a Queue::put whose tail moves up by one without wrapping at the end
Queue_put_linear(q, mem, value) ==
    LET r == basino_queue_put(q, mem, value)
    IN  [kind |-> QueuePutKind(r.code),
         queue |-> IF r.code = 0 THEN [r.queue EXCEPT !.tail = q.tail + 1]
                   ELSE r.queue,
         mem |-> r.mem]

\* Queue::put(value)
Queue_put(q, mem, value) ==
    LET r == basino_queue_put(q, mem, value)
    IN  [kind |-> QueuePutKind(r.code), queue |-> r.queue, mem |-> r.mem]

\* a match of Queue::get that reports an empty queue as a full one
QueueGetKindSwapped(result) ==
    CASE result = 0 -> "Ok"
      [] result = 1 -> "NullPointer"
      [] result = 2 -> "QueueFull"
      [] OTHER      -> "Unknown"

\* the match of Queue::get
QueueGetKind(result) ==
    CASE result = 0 -> "Ok"
      [] result = 1 -> "NullPointer"
      [] result = 2 -> "QueueEmpty"
      [] OTHER      -> "Unknown"

Queue_get_status(q, mem) ==
    LET r == basino_queue_get(q, mem)
    IN  [kind |-> QueueGetKind(r.result), val |-> r.result, queue |-> r.queue]

\* a Queue::get that records the head as the last head whatever the
\* primitive says
Queue_get_touch(q, mem) ==
    LET r == basino_queue_get(q, mem)
    IN  [kind |-> QueueGetKind(r.result), val |-> r.res,
         queue |-> [r.queue EXCEPT !.last_head = q.head]]

\* Queue::get()
Queue_get(q, mem) ==
    LET r == basino_queue_get(q, mem)
    IN  [kind |-> QueueGetKind(r.result), val |-> r.res, queue |-> r.queue]

\* the match of get_start, get_end, get_head, get_last_head and get_tail
QueueAccessorKind(result) ==
    CASE result = 0 -> "Ok"
      [] result = 1 -> "NullPointer"
      [] OTHER      -> "Unknown"

\* Queue::get_start()
Queue_get_start(q) ==
    LET r == basino_queue_get_queue_start(q)
    IN  [kind |-> QueueAccessorKind(r.result), val |-> r.res]

\* Queue::get_end()
Queue_get_end(q) ==
    LET r == basino_queue_get_queue_end(q)
    IN  [kind |-> QueueAccessorKind(r.result), val |-> r.res]

\* Queue::get_head()
Queue_get_head(q) ==
    LET r == basino_queue_get_head(q)
    IN  [kind |-> QueueAccessorKind(r.result), val |-> r.res]

\* a Queue::get_last_head that calls the accessor of the head
Queue_get_last_head_head(q) ==
    LET r == basino_queue_get_head(q)
    IN  [kind |-> QueueAccessorKind(r.result), val |-> r.res]

\* Queue::get_last_head()
Queue_get_last_head(q) ==
    LET r == basino_queue_get_last_head(q)
    IN  [kind |-> QueueAccessorKind(r.result), val |-> r.res]

\* Queue::get_tail()
Queue_get_tail(q) ==
    LET r == basino_queue_get_tail(q)
    IN  [kind |-> QueueAccessorKind(r.result), val |-> r.res]

(***************************************************************************)
(* Interpreter: the primitives.                                            *)
(***************************************************************************)
\* InterpreterState (repr(u8)): Running = 1, Stopped = 2,
\* ExecutingInstruction = 4
InterpreterState == {"Running", "Stopped", "ExecutingInstruction"}

\* Interpreter { byte_code, byte_code_end, byte_code_ptr, state } as
\* Interpreter::new fills it in before basino_il_init runs
NullInterpreter == [byte_code |-> 0, byte_code_end |-> 0,
                    byte_code_ptr |-> 0, state |-> "Stopped"]

\* the byte of the region at address a
ByteAt(it, bytes, a) == bytes[a - it.byte_code + 1]

\* basino_il_init(interpreter, byte_code, byte_code_len, queue, stack): a
\* region of length 0 is refused; the end pointer is the address of the
\* region's last byte, where fetching stops
basino_il_init(byte_code, byte_code_len) ==
    IF byte_code_len = 0
    THEN [code |-> 2, interp |-> NullInterpreter]
    ELSE [code |-> 0,
          interp |-> [byte_code |-> byte_code,
                      byte_code_end |-> (byte_code + byte_code_len - 1) % AddrSpace,
                      byte_code_ptr |-> byte_code,
                      state |-> "Running"]]

\* basino_il_get_next_bytecode(interpreter, result): returns the byte,
\* *result is the code (3: end of program).  A zero byte ends the program
\* unless it is read as the operand of an instruction being executed.
basino_il_get_next_bytecode(it, bytes) ==
    IF it.state = "Stopped"
    THEN [result |-> 3, res |-> 0, interp |-> it]
    ELSE IF it.byte_code_ptr = it.byte_code_end
    THEN [result |-> 3, res |-> 0, interp |-> [it EXCEPT !.state = "Stopped"]]
    ELSE IF it.state = "Running" /\ ByteAt(it, bytes, it.byte_code_ptr) = 0
    THEN [result |-> 3, res |-> 0, interp |-> [it EXCEPT !.state = "Stopped"]]
    ELSE [result |-> 0, res |-> ByteAt(it, bytes, it.byte_code_ptr),
          interp |-> [it EXCEPT !.byte_code_ptr = it.byte_code_ptr + 1]]

\* an LB that returns from a refused push without restoring the state
basino_il_exec_lb_midway(it, bytes, st, mem) ==
    LET f == basino_il_get_next_bytecode(
                 [it EXCEPT !.state = "ExecutingInstruction"], bytes)
        p == basino_stack_push(st, mem, f.res)
    IN  IF f.result # 0
        THEN [code |-> f.result, interp |-> f.interp, stack |-> st, mem |-> mem]
        ELSE IF p.code # 0
        THEN [code |-> 5, interp |-> f.interp, stack |-> st, mem |-> mem]
        ELSE [code |-> 0, interp |-> [f.interp EXCEPT !.state = "Running"],
              stack |-> p.stack, mem |-> p.mem]

\* the LB instruction: the operand is fetched through the cursor and pushed
\* onto the bound stack (5: the push found the stack full)
basino_il_exec_lb(it, bytes, st, mem) ==
    LET f == basino_il_get_next_bytecode(
                 [it EXCEPT !.state = "ExecutingInstruction"], bytes)
        p == basino_stack_push(st, mem, f.res)
    IN  IF f.result # 0
        THEN [code |-> f.result, interp |-> f.interp, stack |-> st, mem |-> mem]
        ELSE IF p.code # 0
        THEN [code |-> 5, interp |-> [f.interp EXCEPT !.state = "Running"],
              stack |-> st, mem |-> mem]
        ELSE [code |-> 0, interp |-> [f.interp EXCEPT !.state = "Running"],
              stack |-> p.stack, mem |-> p.mem]

\* basino_il_exec(interpreter, opcode): 4 when stopped, 3 for a byte that is
\* no opcode
basino_il_exec(it, bytes, st, mem, opcode) ==
    IF it.state = "Stopped"
    THEN [code |-> 4, interp |-> it, stack |-> st, mem |-> mem]
    ELSE IF opcode = OpNO
    THEN [code |-> 0, interp |-> [it EXCEPT !.state = "Running"],
          stack |-> st, mem |-> mem]
    ELSE IF opcode = OpLB
    THEN basino_il_exec_lb(it, bytes, st, mem)
    ELSE [code |-> 3, interp |-> [it EXCEPT !.state = "Running"],
          stack |-> st, mem |-> mem]

\* the loop of basino_il_run: fetch, execute, until the fetch reports the
\* end of the program (success) or an instruction fails (its code is handed
\* on as it is)
RECURSIVE basino_il_run_loop(_, _, _, _)
basino_il_run_loop(it, bytes, st, mem) ==
    LET f == basino_il_get_next_bytecode(it, bytes)
        e == basino_il_exec(f.interp, bytes, st, mem, f.res)
    IN  IF f.result # 0
        THEN [code |-> 0, interp |-> f.interp, stack |-> st, mem |-> mem]
        ELSE IF e.code # 0
        THEN e
        ELSE basino_il_run_loop(e.interp, bytes, e.stack, e.mem)

\* basino_il_run(interpreter): 5 when the interpreter is stopped
basino_il_run(it, bytes, st, mem) ==
    IF it.state = "Stopped"
    THEN [code |-> 5, interp |-> it, stack |-> st, mem |-> mem]
    ELSE basino_il_run_loop(it, bytes, st, mem)

(***************************************************************************)
(* Interpreter: the wrappers of src/il.rs.                                 *)
(***************************************************************************)
\* a match of Interpreter::new without the arm for invalid arguments
ILNewKindUnmapped(res) ==
    CASE res = 0 -> "Ok"
      [] res = 1 -> "NullPointer"
      [] OTHER   -> "Unknown"

\* the match of Interpreter::new
ILNewKind(res) ==
    CASE res = 0 -> "Ok"
      [] res = 1 -> "NullPointer"
      [] res = 2 -> "InvalidArguments"
      [] OTHER   -> "Unknown"

\* an Interpreter::new that returns its struct literal: the primitive has
\* initialised a copy
Interpreter_new_literal(byte_code, byte_code_len) ==
    LET r == basino_il_init(byte_code, byte_code_len % AddrSpace)
    IN  [kind |-> ILNewKind(r.code),
         interp |-> [NullInterpreter EXCEPT !.byte_code = byte_code]]

\* Interpreter::new(byte_code, byte_code_len, queue, stack)
Interpreter_new(byte_code, byte_code_len) ==
    LET r == basino_il_init(byte_code, byte_code_len % AddrSpace)
    IN  [kind |-> ILNewKind(r.code), interp |-> r.interp]

\* a match of Interpreter::get_next_bytecode without the arm for the end of
\* the program
ILGetNextKindUnmapped(result) ==
    CASE result = 0 -> "Ok"
      [] result = 1 -> "NullPointer"
      [] OTHER      -> "Unknown"

\* a match of Interpreter::get_next_bytecode with EndOfProgram at code 2
ILGetNextKindAtTwo(result) ==
    CASE result = 0 -> "Ok"
      [] result = 1 -> "NullPointer"
      [] result = 2 -> "EndOfProgram"
      [] OTHER      -> "Unknown"

\* the match of Interpreter::get_next_bytecode
ILGetNextKind(result) ==
    CASE result = 0 -> "Ok"
      [] result = 1 -> "NullPointer"
      [] result = 3 -> "EndOfProgram"
      [] OTHER      -> "Unknown"

\* an Interpreter::get_next_bytecode that hands the primitive a copy of the
\* interpreter: a failed fetch leaves the caller's interpreter as it was
Interpreter_get_next_bytecode_copy(it, bytes) ==
    LET r == basino_il_get_next_bytecode(it, bytes)
    IN  [kind |-> ILGetNextKind(r.result), val |-> r.res,
         interp |-> IF r.result = 0 THEN r.interp ELSE it]

\* an Interpreter::get_next_bytecode that steps over the byte a failed fetch
\* stopped at
Interpreter_get_next_bytecode_skip(it, bytes) ==
    LET r == basino_il_get_next_bytecode(it, bytes)
    IN  [kind |-> ILGetNextKind(r.result), val |-> r.res,
         interp |-> IF r.result = 0 THEN r.interp
                    ELSE [r.interp EXCEPT !.byte_code_ptr = (@ + 1) % AddrSpace]]

\* an Interpreter::get_next_bytecode that returns the byte under the cursor
\* after the fetch has moved it
Interpreter_get_next_bytecode_after(it, bytes) ==
    LET r == basino_il_get_next_bytecode(it, bytes)
    IN  [kind |-> ILGetNextKind(r.result),
         val |-> IF r.result = 0
                 THEN ByteAt(r.interp, bytes, r.interp.byte_code_ptr)
                 ELSE r.res,
         interp |-> r.interp]

\* Interpreter::get_next_bytecode()
Interpreter_get_next_bytecode(it, bytes) ==
    LET r == basino_il_get_next_bytecode(it, bytes)
    IN  [kind |-> ILGetNextKind(r.result), val |-> r.res, interp |-> r.interp]

\* a match of Interpreter::run with the arms 4 and 5 exchanged
ILRunKindSwapped(res) ==
    CASE res = 0 -> "Ok"
      [] res = 1 -> "NullPointer"
      [] res = 2 -> "InvalidArguments"
      [] res = 3 -> "InstructionNotFound"
      [] res = 4 -> "Stopped"
      [] res = 5 -> "EndOfProgram"
      [] OTHER   -> "Unknown"

\* a match of Interpreter::run that takes code 3 for success
ILRunKindLenient(res) ==
    CASE res = 0 -> "Ok"
      [] res = 1 -> "NullPointer"
      [] res = 2 -> "InvalidArguments"
      [] res = 3 -> "Ok"
      [] res = 4 -> "EndOfProgram"
      [] res = 5 -> "Stopped"
      [] OTHER   -> "Unknown"

\* the match of Interpreter::run
ILRunKind(res) ==
    CASE res = 0 -> "Ok"
      [] res = 1 -> "NullPointer"
      [] res = 2 -> "InvalidArguments"
      [] res = 3 -> "InstructionNotFound"
      [] res = 4 -> "EndOfProgram"
      [] res = 5 -> "Stopped"
      [] res = 6 -> "Unknown"
      [] OTHER   -> "Unknown"

\* an Interpreter::run whose interpreter is bound to another stack: the
\* caller's stack is left as it was
Interpreter_run_unbound(it, bytes, st, mem) ==
    LET r == basino_il_run(it, bytes, st, mem)
    IN  [kind |-> ILRunKind(r.code), interp |-> r.interp,
         stack |-> st, mem |-> mem]

\* Interpreter::run()
Interpreter_run(it, bytes, st, mem) ==
    LET r == basino_il_run(it, bytes, st, mem)
    IN  [kind |-> ILRunKind(r.code), interp |-> r.interp,
         stack |-> r.stack, mem |-> r.mem]

\* a match of Interpreter::exec with the arms 4 and 5 exchanged
ILExecKindSwapped(res) ==
    CASE res = 0 -> "Ok"
      [] res = 1 -> "NullPointer"
      [] res = 2 -> "InvalidArguments"
      [] res = 3 -> "InstructionNotFound"
      [] res = 4 -> "StackOverflow"
      [] res = 5 -> "Stopped"
      [] OTHER   -> "Unknown"

\* a match of Interpreter::exec without the arm for an unknown instruction
ILExecKindUnmapped(res) ==
    CASE res = 0 -> "Ok"
      [] res = 1 -> "NullPointer"
      [] res = 2 -> "InvalidArguments"
      [] res = 4 -> "Stopped"
      [] res = 5 -> "StackOverflow"
      [] OTHER   -> "Unknown"

\* a match of Interpreter::exec that takes code 4 for success
ILExecKindLenient(res) ==
    CASE res = 0 -> "Ok"
      [] res = 1 -> "NullPointer"
      [] res = 2 -> "InvalidArguments"
      [] res = 3 -> "InstructionNotFound"
      [] res = 4 -> "Ok"
      [] res = 5 -> "StackOverflow"
      [] OTHER   -> "Unknown"

\* the match of Interpreter::exec
ILExecKind(res) ==
    CASE res = 0 -> "Ok"
      [] res = 1 -> "NullPointer"
      [] res = 2 -> "InvalidArguments"
      [] res = 3 -> "InstructionNotFound"
      [] res = 4 -> "Stopped"
      [] res = 5 -> "StackOverflow"
      [] res = 6 -> "Unknown"
      [] OTHER   -> "Unknown"

\* an Interpreter::exec whose interpreter is bound to another stack: the
\* caller's stack is left as it was
Interpreter_exec_unbound(it, bytes, st, mem, opcode) ==
    LET r == basino_il_exec(it, bytes, st, mem, opcode)
    IN  [kind |-> ILExecKind(r.code), interp |-> r.interp,
         stack |-> st, mem |-> mem]

\* an Interpreter::exec that hands the primitive the opcode plus one
Interpreter_exec_shifted(it, bytes, st, mem, opcode) ==
    LET r == basino_il_exec(it, bytes, st, mem, (opcode + 1) % 256)
    IN  [kind |-> ILExecKind(r.code), interp |-> r.interp,
         stack |-> r.stack, mem |-> r.mem]

\* an Interpreter::exec that takes a 0x00 under the cursor for the end of
\* the program when the opcode is LB
Interpreter_exec_terminated(it, bytes, st, mem, opcode) ==
    LET r == basino_il_exec(it, bytes, st, mem, opcode)
    IN  IF opcode = OpLB /\ it.state # "Stopped"
           /\ ByteAt(it, bytes, it.byte_code_ptr) = 0
        THEN [kind |-> ILExecKind(3), interp |-> [it EXCEPT !.state = "Stopped"],
              stack |-> st, mem |-> mem]
        ELSE [kind |-> ILExecKind(r.code), interp |-> r.interp,
              stack |-> r.stack, mem |-> r.mem]

\* an Interpreter::exec whose LB takes the byte at byte_code_end for its
\* operand when the cursor is there
Interpreter_exec_last(it, bytes, st, mem, opcode) ==
    LET r == basino_il_exec(it, bytes, st, mem, opcode)
        p == basino_stack_push(st, mem, ByteAt(it, bytes, it.byte_code_ptr))
    IN  IF opcode = OpLB /\ it.state # "Stopped"
           /\ it.byte_code_ptr = it.byte_code_end
        THEN [kind |-> ILExecKind(IF p.code = 0 THEN 0 ELSE 5), interp |-> it,
              stack |-> p.stack, mem |-> p.mem]
        ELSE [kind |-> ILExecKind(r.code), interp |-> r.interp,
              stack |-> r.stack, mem |-> r.mem]

\* Interpreter::exec(opcode)
Interpreter_exec(it, bytes, st, mem, opcode) ==
    LET r == basino_il_exec(it, bytes, st, mem, opcode)
    IN  [kind |-> ILExecKind(r.code), interp |-> r.interp,
         stack |-> r.stack, mem |-> r.mem]

(***************************************************************************)
(* Initial state: the static buffers are zeroed, nothing is constructed.   *)
(***************************************************************************)
NoResult == [op |-> "none", kind |-> "none", val |-> 0]

StackBuffer(ptr) == ptr .. (ptr + MaxStackLen - 1)
QueueBuffer(ptr) == ptr .. (ptr + MaxQueueLen - 1)

Init ==
    /\ stack = NullStack
    /\ stackLive = FALSE
    /\ smem = [a \in UNION {StackBuffer(p) : p \in StackPtrs} |-> 0]
    /\ sres = NoResult
    /\ shist = <<>>
    /\ queue = NullQueue
    /\ queueLive = FALSE
    /\ qmem = [a \in UNION {QueueBuffer(p) : p \in QueuePtrs} |-> 0]
    /\ qres = NoResult
    /\ qput = <<>>
    /\ qgot = <<>>
    /\ interp = NullInterpreter
    /\ ilLive = FALSE
    /\ code = <<>>
    /\ ires = NoResult
    /\ ilCalls = 0
    /\ onlyGets = TRUE
    /\ ranOk = FALSE

(***************************************************************************)
(* Stack operations.                                                       *)
(***************************************************************************)
StackNewAct ==
    \E ptr \in StackPtrs, len \in 1..MaxStackLen :
        LET r == Stack_new(ptr, len) IN
        /\ stack' = r.stack
        /\ stackLive' = (r.kind = "Ok")
        /\ sres' = [op |-> "new", kind |-> r.kind, val |-> len]
        /\ shist' = <<>>
        /\ UNCHANGED smem
        /\ UNCHANGED <<queueVars, ilVars>>

StackPushAct ==
    \E value \in StackVals :
        LET r == Stack_push(stack, smem, value) IN
        /\ stackLive
        /\ Len(shist) < MaxStackOps
        /\ stack' = r.stack
        /\ smem' = r.mem
        /\ sres' = [op |-> "push", kind |-> r.kind, val |-> value]
        /\ shist' = Append(shist, [op |-> "push", kind |-> r.kind, val |-> value])
        /\ UNCHANGED stackLive
        /\ UNCHANGED <<queueVars, ilVars>>

StackPopAct ==
    LET r == Stack_pop(stack, smem) IN
    /\ stackLive
    /\ Len(shist) < MaxStackOps
    /\ stack' = r.stack
    /\ sres' = [op |-> "pop", kind |-> r.kind, val |-> r.val]
    /\ shist' = Append(shist, [op |-> "pop", kind |-> r.kind, val |-> r.val])
    /\ UNCHANGED <<stackLive, smem>>
    /\ UNCHANGED <<queueVars, ilVars>>

NextStack == StackNewAct \/ StackPushAct \/ StackPopAct

SpecStack == Init /\ [][NextStack]_vars

(***************************************************************************)
(* Stack initialisation with addresses of the caller's choice, as the      *)
(* tests of stack.rs call basino_stack_init on a struct literal.           *)
(***************************************************************************)
\* 16-bit addresses, none of them null: neighbours within a page and across
\* a page boundary, and the addresses 0x0050 and 0x2343 of
\* test_stack_init_upper_byte_compare_works
InitAddrs == {1, 80, 255, 256, 257, 336, 511, 512, 9027, 17187, 65535}

StackInitAct ==
    \E top \in InitAddrs, bottom \in InitAddrs :
        LET r == basino_stack_init(top, bottom) IN
        /\ stack' = r.stack
        /\ stackLive' = (r.code = 0)
        /\ sres' = [op |-> "init", kind |-> StackNewKind(r.code),
                    val |-> <<top, bottom>>]
        /\ shist' = <<>>
        /\ UNCHANGED smem
        /\ UNCHANGED <<queueVars, ilVars>>

NextStackInit == StackInitAct

SpecStackInit == Init /\ [][NextStackInit]_vars

(***************************************************************************)
(* Queue operations.                                                       *)
(***************************************************************************)
QueueNewAct ==
    \E ptr \in QueuePtrs, len \in 1..MaxQueueLen :
        LET r == Queue_new(ptr, len) IN
        /\ queue' = r.queue
        /\ queueLive' = (r.kind = "Ok")
        /\ qres' = [op |-> "new", kind |-> r.kind, val |-> len]
        /\ qput' = <<>>
        /\ qgot' = <<>>
        /\ UNCHANGED qmem
        /\ UNCHANGED <<stackVars, ilVars>>

QueuePutAct ==
    \E value \in QueueVals :
        LET r == Queue_put(queue, qmem, value) IN
        /\ queueLive
        /\ Len(qput) < MaxQueuePuts
        /\ queue' = r.queue
        /\ qmem' = r.mem
        /\ qres' = [op |-> "put", kind |-> r.kind, val |-> value]
        /\ qput' = IF r.kind = "Ok" THEN Append(qput, value) ELSE qput
        /\ UNCHANGED <<queueLive, qgot>>
        /\ UNCHANGED <<stackVars, ilVars>>

QueueGetAct ==
    LET r == Queue_get(queue, qmem) IN
    /\ queueLive
    /\ queue' = r.queue
    /\ qres' = [op |-> "get", kind |-> r.kind, val |-> r.val]
    /\ qgot' = IF r.kind = "Ok" THEN Append(qgot, r.val) ELSE qgot
    /\ UNCHANGED <<queueLive, qmem, qput>>
    /\ UNCHANGED <<stackVars, ilVars>>

NextQueue == QueueNewAct \/ QueuePutAct \/ QueueGetAct

SpecQueue == Init /\ [][NextQueue]_vars

(***************************************************************************)
(* Interpreter operations.  The interpreter is bound to a stack and a      *)
(* queue that were constructed before it, and borrows them for as long as  *)
(* it lives; the stack may already hold bytes.                             *)
(***************************************************************************)
\* the stack after k pushes of value onto st
RECURSIVE PushTimes(_, _, _, _)
PushTimes(st, mem, value, k) ==
    IF k = 0
    THEN [stack |-> st, mem |-> mem]
    ELSE LET r == Stack_push(st, mem, value)
         IN  PushTimes(r.stack, r.mem, value, k - 1)

InitIL ==
    /\ \E ptr \in StackPtrs, len \in 2..MaxStackLen, k \in 0..MaxStackLen :
            LET zero == [a \in StackBuffer(ptr) |-> 0]
                r == PushTimes(Stack_new(ptr, len).stack, zero, 5, k)
            IN  /\ k <= len - 1
                /\ stack = r.stack
                /\ smem = r.mem
    /\ stackLive = TRUE
    /\ sres = NoResult
    /\ shist = <<>>
    /\ \E ptr \in QueuePtrs :
            /\ queue = Queue_new(ptr, MaxQueueLen).queue
            /\ qmem = [a \in QueueBuffer(ptr) |-> 0]
    /\ queueLive = TRUE
    /\ qres = NoResult
    /\ qput = <<>>
    /\ qgot = <<>>
    /\ interp = NullInterpreter
    /\ ilLive = FALSE
    /\ code = <<>>
    /\ ires = NoResult
    /\ ilCalls = 0
    /\ onlyGets = TRUE
    /\ ranOk = FALSE

\* longer byte-code arrays: those of the tests of il.rs (a [u8; 5] that
\* holds NO, LB 0x76 and zeros) and programs with two LB instructions
LongPrograms ==
    { <<OpNO, OpLB, 118, 0, 0>>,
      <<OpLB, 118, OpLB, OpNO, 0>>,
      <<OpLB, OpLB, OpNO, OpLB, 0, 0>>,
      <<OpLB, 0, OpLB, 118, 0>>,
      <<OpNO, OpLB, 118, OpNO, OpNO>>,
      <<OpLB, 118, OpNO, 118, 0>> }

\* the byte-code arrays: every sequence of CodeBytes up to MaxProgLen, and
\* the longer ones
Programs == UNION {[1..n -> CodeBytes] : n \in 0..MaxProgLen} \cup LongPrograms

\* the call counters stop at MaxCalls
Counted(n) == IF n < MaxCalls THEN n + 1 ELSE n

ILNewAct ==
    \E ptr \in CodePtrs, bytes \in Programs :
        LET r == Interpreter_new(ptr, Len(bytes)) IN
        /\ stackLive
        /\ queueLive
        /\ ~ilLive
        /\ interp' = r.interp
        /\ ilLive' = (r.kind = "Ok")
        /\ code' = bytes
        /\ ires' = [op |-> "new", kind |-> r.kind, val |-> Len(bytes)]
        /\ ilCalls' = 0
        /\ onlyGets' = TRUE
        /\ ranOk' = FALSE
        /\ UNCHANGED <<stackVars, queueVars>>

ILGetNextAct ==
    LET r == Interpreter_get_next_bytecode(interp, code) IN
    /\ ilLive
    /\ interp' = r.interp
    /\ ires' = [op |-> "get_next_bytecode", kind |-> r.kind, val |-> r.val]
    /\ ilCalls' = Counted(ilCalls)
    /\ UNCHANGED <<ilLive, code, onlyGets, ranOk, stackVars, queueVars>>

\* an exec whose instruction takes a byte from the bound queue
ILExecAct_input ==
    \E opcode \in CodeBytes :
        LET r == Interpreter_exec(interp, code, stack, smem, opcode)
            g == Queue_get(queue, qmem)
        IN  /\ ilLive
            /\ interp' = r.interp
            /\ stack' = r.stack
            /\ smem' = r.mem
            /\ queue' = g.queue
            /\ ires' = [op |-> "exec", kind |-> r.kind, val |-> opcode]
            /\ ilCalls' = Counted(ilCalls)
            /\ onlyGets' = FALSE
            /\ UNCHANGED <<ilLive, code, ranOk>>
            /\ UNCHANGED <<stackLive, sres, shist>>
            /\ UNCHANGED <<queueLive, qmem, qres, qput, qgot>>

ILExecAct ==
    \E opcode \in CodeBytes :
        LET r == Interpreter_exec(interp, code, stack, smem, opcode) IN
        /\ ilLive
        /\ interp' = r.interp
        /\ stack' = r.stack
        /\ smem' = r.mem
        /\ ires' = [op |-> "exec", kind |-> r.kind, val |-> opcode]
        /\ ilCalls' = Counted(ilCalls)
        /\ onlyGets' = FALSE
        /\ UNCHANGED <<ilLive, code, ranOk>>
        /\ UNCHANGED <<stackLive, sres, shist, queueVars>>

ILRunAct ==
    LET r == Interpreter_run(interp, code, stack, smem) IN
    /\ ilLive
    /\ interp' = r.interp
    /\ stack' = r.stack
    /\ smem' = r.mem
    /\ ires' = [op |-> "run", kind |-> r.kind, val |-> 0]
    /\ ilCalls' = Counted(ilCalls)
    /\ ranOk' = (ranOk \/ r.kind = "Ok")
    /\ onlyGets' = FALSE
    /\ UNCHANGED <<ilLive, code>>
    /\ UNCHANGED <<stackLive, sres, shist, queueVars>>

NextIL ==
    \/ ILNewAct
    \/ ILGetNextAct
    \/ ILExecAct
    \/ ILRunAct

SpecIL == InitIL /\ [][NextIL]_vars

(***************************************************************************)
(* Claims about the stack (SpecStack).                                     *)
(***************************************************************************)
AllOp(h, a, b, op) == \A i \in a..b : h[i].op = op

\* C1: for every capacity N >= 1 a freshly initialised stack accepts exactly
\* N pushes, the (N+1)-th push fails with StackOverflow, popping then returns
\* the N values in reverse push order, and the (N+1)-th pop fails with
\* StackUnderflow.
C1_FillThenDrain ==
    stackLive =>
        LET N == Stack_size(stack)
            h == shist
        IN  /\ N >= 1
            /\ \A k \in 1..Len(h) :
                /\ (k <= N /\ AllOp(h, 1, k, "push")) => h[k].kind = "Ok"
                /\ (k = N + 1 /\ AllOp(h, 1, k, "push"))
                        => h[k].kind = "StackOverflow"
                /\ (/\ k > N + 1
                    /\ k <= 2 * N + 1
                    /\ AllOp(h, 1, N + 1, "push")
                    /\ AllOp(h, N + 2, k, "pop"))
                        => /\ h[k].kind = "Ok"
                           /\ h[k].val = h[2 * N + 2 - k].val
                /\ (/\ k = 2 * N + 2
                    /\ AllOp(h, 1, N + 1, "push")
                    /\ AllOp(h, N + 2, k, "pop"))
                        => h[k].kind = "StackUnderflow"

\* a stack of capacity 2 was filled with two different bytes, refused a
\* third push, was popped empty and refused a third pop
C1_Witness ==
    /\ stackLive
    /\ Stack_size(stack) = 2
    /\ Len(shist) = 6
    /\ AllOp(shist, 1, 3, "push")
    /\ AllOp(shist, 4, 6, "pop")
    /\ shist[1].val # shist[2].val
    /\ shist[6].kind = "StackUnderflow"

(***************************************************************************)
(* Claims about the queue (SpecQueue).                                     *)
(***************************************************************************)
\* the number of bytes stored in the queue
QueueStored == Len(qput) - Len(qgot)

\* C2: for any interleaving of successful put and get calls the values
\* returned by get are exactly the values given to put, in the same order,
\* however often head and tail have wrapped.
C2_FifoAcrossWraps ==
    /\ Len(qgot) <= Len(qput)
    /\ qgot = SubSeq(qput, 1, Len(qgot))

\* a queue over 3 bytes has delivered 6 bytes, not all equal: head has
\* wrapped from end to start twice
C2_Witness ==
    /\ queueLive
    /\ queue.queue_len = 3
    /\ Len(qgot) = 6
    /\ qgot[5] # qgot[6]
    /\ qres.op = "get"
    /\ qres.kind = "Ok"

\* C3: for every region length M >= 2 a freshly initialised queue accepts
\* exactly M-1 consecutive puts and the next put fails with QueueFull; a get
\* on the empty fresh queue fails with QueueEmpty.
C3_FreshQueueCapacity ==
    (queueLive /\ queue.queue_len >= 2 /\ qgot = <<>>) =>
        /\ qres.op = "put" =>
            \/ qres.kind = "Ok" /\ Len(qput) <= queue.queue_len - 1
            \/ qres.kind = "QueueFull" /\ Len(qput) = queue.queue_len - 1
        /\ (qres.op = "get" /\ qput = <<>>) => qres.kind = "QueueEmpty"

\* a fresh queue over 4 bytes took 3 puts and refused the 4th
C3_Witness ==
    /\ queueLive
    /\ queue.queue_len = 4
    /\ qgot = <<>>
    /\ Len(qput) = 3
    /\ qres.op = "put"
    /\ qres.kind = "QueueFull"

\* C4: after any interleaving of put and get on a queue over M bytes, put
\* fails with QueueFull exactly when M-1 bytes are stored and get fails with
\* QueueEmpty exactly when none is stored, wherever head and tail lie.
C4_FullAndEmptyExact ==
    queueLive =>
        /\ qres.op = "put" =>
            \/ qres.kind = "Ok" /\ QueueStored <= queue.queue_len - 1
            \/ qres.kind = "QueueFull" /\ QueueStored = queue.queue_len - 1
        /\ qres.op = "get" =>
            \/ qres.kind = "Ok" /\ QueueStored >= 0
            \/ qres.kind = "QueueEmpty" /\ QueueStored = 0

\* a queue over 4 bytes whose tail has wrapped and whose head is in the
\* middle of the region is full and refuses a put
C4_Witness ==
    /\ queueLive
    /\ queue.queue_len = 4
    /\ Len(qput) > 4
    /\ queue.head # queue.start
    /\ queue.head # queue.end
    /\ qres.op = "put"
    /\ qres.kind = "QueueFull"

(***************************************************************************)
(* Claims about the interpreter (SpecIL).                                  *)
(***************************************************************************)
\* the interpreter has been constructed and nothing was called on it
Fresh ==
    /\ ilLive
    /\ ilCalls = 0
    /\ interp.state = "Running"
    /\ interp.byte_code_ptr = interp.byte_code

\* bytes[i..] is a sequence of NO and LB instructions followed by a 0x00
RECURSIVE WellFormed(_, _)
WellFormed(bytes, i) ==
    IF i > Len(bytes) THEN FALSE
    ELSE IF bytes[i] = 0 THEN TRUE
    ELSE IF bytes[i] = OpNO THEN WellFormed(bytes, i + 1)
    ELSE IF bytes[i] = OpLB
    THEN i + 1 <= Len(bytes) /\ WellFormed(bytes, i + 2)
    ELSE FALSE

\* the operands of the LB instructions of a well-formed bytes[i..], in
\* program order
RECURSIVE Operands(_, _)
Operands(bytes, i) ==
    IF i > Len(bytes) \/ bytes[i] = 0 THEN <<>>
    ELSE IF bytes[i] = OpLB /\ i + 1 <= Len(bytes)
    THEN <<bytes[i + 1]>> \o Operands(bytes, i + 2)
    ELSE Operands(bytes, i + 1)

Reverse(s) == [i \in 1..Len(s) |-> s[Len(s) + 1 - i]]

\* what popping the stack until StackUnderflow returns, first pop first
RECURSIVE PopAll(_, _)
PopAll(st, mem) ==
    LET r == Stack_pop(st, mem)
    IN  IF r.kind = "Ok" THEN <<r.val>> \o PopAll(r.stack, mem) ELSE <<>>

\* the number of pushes the stack still accepts
FreeSlots(st, mem) == Stack_size(st) - Len(PopAll(st, mem))

\* C5: on a fresh interpreter whose program is NO and LB instructions ended
\* by a 0x00, with no more LB instructions than the stack has free slots,
\* run() returns Ok, the state is Stopped, and popping the stack returns the
\* LB operands last-pushed first, followed by what the stack held before.
C5_RunPushesOperands ==
    [][(/\ Fresh
        /\ WellFormed(code, 1)
        /\ Len(Operands(code, 1)) <= FreeSlots(stack, smem)
        /\ ires'.op = "run")
            => /\ ires'.kind = "Ok"
               /\ interp'.state = "Stopped"
               /\ PopAll(stack', smem')
                    = Reverse(Operands(code, 1)) \o PopAll(stack, smem)]_vars

\* run() was the first call on an interpreter over [LB 0x76, LB 0x08, 0x00]
\* and returned Ok: 0x08 is on top of 0x76
C5_Witness ==
    /\ ilLive
    /\ code = <<OpLB, 118, OpLB, OpNO, 0>>
    /\ ilCalls = 1
    /\ ires.op = "run"
    /\ ires.kind = "Ok"
    /\ interp.state = "Stopped"
    /\ Len(PopAll(stack, smem)) >= 2
    /\ SubSeq(PopAll(stack, smem), 1, 2) = <<OpNO, 118>>

\* a run() from this state executes an LB instruction whose push finds the
\* stack full: the primitive hands on the code of that exec
RunMeetsFullStack ==
    /\ ilLive
    /\ interp.state # "Stopped"
    /\ basino_il_run(interp, code, stack, smem).code = 5
    /\ ILExecKind(basino_il_run(interp, code, stack, smem).code) = "StackOverflow"

\* C6: when an LB instruction executed inside run() finds the stack full,
\* run() returns StackOverflow to the caller.
C6_RunReportsStackOverflow ==
    [][(RunMeetsFullStack /\ ires'.op = "run")
            => ires'.kind = "StackOverflow"]_vars

\* run() was the first call on an interpreter over [LB 0x76, 0x00] whose
\* stack was full, and the caller was told Stopped
C6_Witness ==
    /\ ilLive
    /\ code = <<OpLB, 118, 0>>
    /\ FreeSlots(stack, smem) = 0
    /\ ilCalls = 1
    /\ ires.op = "run"
    /\ ires.kind = "Stopped"
    /\ interp.state = "Running"

\* the region holds no 0x00
ZeroFree(bytes) == \A i \in 1..Len(bytes) : bytes[i] # 0

\* C7: on a fresh interpreter over a region of length L without a 0x00,
\* get_next_bytecode succeeds exactly L times, returning the bytes in stream
\* order, and the (L+1)-th call fails with EndOfProgram and stops the
\* interpreter.
C7_FetchesWholeRegion ==
    (/\ ilLive
     /\ ZeroFree(code)
     /\ onlyGets
     /\ ilCalls >= 1
     /\ ilCalls < MaxCalls)
        => /\ ilCalls <= Len(code)
                => /\ ires.kind = "Ok"
                   /\ ires.val = code[ilCalls]
           /\ ilCalls = Len(code) + 1
                => /\ ires.kind = "EndOfProgram"
                   /\ interp.state = "Stopped"

\* the second get_next_bytecode on a fresh interpreter over [NO, NO] failed
C7_Witness ==
    /\ ilLive
    /\ code = <<OpNO, OpNO>>
    /\ onlyGets
    /\ ilCalls = 2
    /\ ires.kind = "EndOfProgram"
    /\ interp.byte_code_ptr = interp.byte_code + 1

AtEndOfProgram ==
    \/ interp.byte_code_ptr = interp.byte_code_end
    \/ ByteAt(interp, code, interp.byte_code_ptr) = 0

\* C9: a get_next_bytecode that finds 0x00 at the cursor, or the cursor at
\* byte_code_end, fails with EndOfProgram, sets the state to Stopped and
\* leaves the cursor where it was.
C9_EndOfProgramStops ==
    [][(ilLive /\ AtEndOfProgram /\ ires'.op = "get_next_bytecode")
            => /\ ires'.kind = "EndOfProgram"
               /\ interp'.state = "Stopped"
               /\ interp'.byte_code_ptr = interp.byte_code_ptr]_vars

\* the second get_next_bytecode found a 0x00 in the middle of the region
C9_Witness ==
    /\ ilLive
    /\ onlyGets
    /\ ilCalls = 2
    /\ ires.kind = "EndOfProgram"
    /\ interp.state = "Stopped"
    /\ interp.byte_code_ptr # interp.byte_code_end
    /\ ByteAt(interp, code, interp.byte_code_ptr) = 0

\* C10: after a run() that returned Ok every later run() on the interpreter
\* fails with Stopped and leaves the state Stopped.
C10_RunStaysStopped ==
    [][(ilLive /\ ranOk /\ ires'.op = "run")
            => /\ ires'.kind = "Stopped"
               /\ interp'.state = "Stopped"]_vars

\* a run() returned Ok and at least two more calls were made, the last of
\* them a run()
C10_Witness ==
    /\ ilLive
    /\ ranOk
    /\ ilCalls = MaxCalls
    /\ ires.op = "run"
    /\ ires.kind = "Stopped"
    /\ interp.state = "Stopped"

\* C11: exec(opcode) on a Stopped interpreter fails with Stopped for every
\* opcode and changes neither the stack, the queue, the cursor nor the
\* state.
C11_ExecStoppedChangesNothing ==
    [][(ilLive /\ interp.state = "Stopped" /\ ires'.op = "exec")
            => /\ ires'.kind = "Stopped"
               /\ interp' = interp
               /\ stack' = stack /\ smem' = smem
               /\ queue' = queue /\ qmem' = qmem]_vars

\* exec(LB) was called on an interpreter that a get_next_bytecode had
\* stopped, with a free slot on the stack
C11_Witness ==
    /\ ilLive
    /\ ilCalls = 2
    /\ ires = [op |-> "exec", kind |-> "Stopped", val |-> OpLB]
    /\ interp.state = "Stopped"
    /\ FreeSlots(stack, smem) > 0

\* exec(LB) from this state is the case of C12: not Stopped, a free slot
ExecLBReady == ilLive /\ interp.state # "Stopped" /\ FreeSlots(stack, smem) > 0

\* what C12 says of the call: Ok, the byte at the old cursor is on top of the
\* stack above what was there, and the cursor is one further
ExecLBPushed ==
    /\ ires'.kind = "Ok"
    /\ interp'.byte_code_ptr = interp.byte_code_ptr + 1
    /\ PopAll(stack', smem')
        = <<ByteAt(interp, code, interp.byte_code_ptr)>> \o PopAll(stack, smem)
    /\ Stack_pop(stack', smem').val = ByteAt(interp, code, interp.byte_code_ptr)

C13_ExecNOChangesNothing ==
    [][(/\ ilLive
        /\ interp.state # "Stopped"
        /\ ires'.op = "exec"
        /\ ires'.val = OpNO)
            => /\ ires'.kind = "Ok"
               /\ interp'.byte_code_ptr = interp.byte_code_ptr
               /\ stack' = stack /\ smem' = smem
               /\ queue' = queue /\ qmem' = qmem]_vars

\* exec(NO) returned Ok after a get_next_bytecode had moved the cursor
C13_Witness ==
    /\ ilLive
    /\ ilCalls = 2
    /\ ires = [op |-> "exec", kind |-> "Ok", val |-> OpNO]
    /\ interp.byte_code_ptr = interp.byte_code + 1
    /\ interp.state = "Running"

\* C14: exec(opcode) in a non-Stopped interpreter fails with
\* InstructionNotFound for every opcode other than 0x08 and 0x09, and
\* changes neither the stack nor the cursor.
C14_ExecUnknownOpcode ==
    [][(/\ ilLive
        /\ interp.state # "Stopped"
        /\ ires'.op = "exec"
        /\ ires'.val \notin {OpNO, OpLB})
            => /\ ires'.kind = "InstructionNotFound"
               /\ interp'.byte_code_ptr = interp.byte_code_ptr
               /\ stack' = stack /\ smem' = smem]_vars

\* exec(0x76) was refused on a running interpreter
C14_Witness ==
    /\ ilLive
    /\ ires = [op |-> "exec", kind |-> "InstructionNotFound", val |-> 118]
    /\ interp.state = "Running"
    /\ ilCalls = 1

\* bytes[i..] is a sequence of NO and LB instructions, each LB with its
\* operand, that fills the region to its last byte
RECURSIVE ValidRegion(_, _)
ValidRegion(bytes, i) ==
    IF i > Len(bytes) THEN TRUE
    ELSE IF bytes[i] = OpNO THEN ValidRegion(bytes, i + 1)
    ELSE IF bytes[i] = OpLB
    THEN i + 1 <= Len(bytes) /\ ValidRegion(bytes, i + 2)
    ELSE FALSE

\* C15: run() on a region of valid instructions without a 0x00 ends when the
\* cursor reaches byte_code_end, returns Ok and leaves the state Stopped.
C15_RunEndsAtRegionEnd ==
    [][(/\ Fresh
        /\ ZeroFree(code)
        /\ ValidRegion(code, 1)
        /\ Len(Operands(code, 1)) <= FreeSlots(stack, smem)
        /\ ires'.op = "run")
            => /\ ires'.kind = "Ok"
               /\ interp'.state = "Stopped"
               /\ interp'.byte_code_ptr = interp'.byte_code_end]_vars

\* run() was the first call on an interpreter over [LB, 0x76] with a free
\* stack slot and the caller was told InstructionNotFound
C15_Witness ==
    /\ ilLive
    /\ code = <<OpLB, 118>>
    /\ ilCalls = 1
    /\ ires.op = "run"
    /\ ires.kind = "InstructionNotFound"
    /\ FreeSlots(stack, smem) > 0

\* C16: Interpreter::new with a byte-code length of 0 fails with
\* InvalidArguments and yields no interpreter; with a length of 1 or more it
\* succeeds.
C16_NewRefusesEmptyRegion ==
    ires.op = "new" =>
        /\ ires.val = 0 => (ires.kind = "InvalidArguments" /\ ~ilLive)
        /\ ires.val >= 1 => (ires.kind = "Ok" /\ ilLive)

\* Interpreter::new was called over an empty region
C16_Witness ==
    /\ ires = [op |-> "new", kind |-> "InvalidArguments", val |-> 0]
    /\ ~ilLive
    /\ code = <<>>

\* C17: a successfully constructed interpreter is in state Running, not in
\* the Stopped of its struct literal, with the cursor at the first byte.
C17_NewStartsRunning ==
    (ires.op = "new" /\ ires.kind = "Ok") =>
        /\ ilLive
        /\ interp.state = "Running"
        /\ interp.byte_code \in CodePtrs
        /\ interp.byte_code_ptr = interp.byte_code

\* an interpreter was constructed over a region of MaxProgLen bytes
C17_Witness ==
    /\ ires = [op |-> "new", kind |-> "Ok", val |-> MaxProgLen]
    /\ ilLive
    /\ ilCalls = 0
    /\ interp.state = "Running"

(***************************************************************************)
(* Claims about stack initialisation (SpecStackInit, SpecStack).           *)
(***************************************************************************)
\* C18: stack initialisation with the 16-bit addresses bottom and
\* top_sentinel fails with InvalidArguments exactly when
\* bottom >= top_sentinel and succeeds exactly when
\* top_sentinel >= bottom + 1, whatever the single bytes of the addresses.
C18_InitComparesWholeAddress ==
    sres.op = "init" =>
        LET top == sres.val[1]
            bottom == sres.val[2]
        IN  /\ sres.kind = "InvalidArguments" <=> bottom >= top
            /\ sres.kind = "Ok" <=> top >= bottom + 1
            /\ stackLive <=> sres.kind = "Ok"

\* an initialisation succeeded although the low byte of top_sentinel is
\* below the low byte of bottom
C18_Witness ==
    /\ sres.op = "init"
    /\ sres.kind = "Ok"
    /\ sres.val[1] % 256 < sres.val[2] % 256
    /\ stack.top_sentinel = sres.val[1]

\* the last call was a Stack::new(ptr, len) that returned Ok
StackNewOk(ptr, len) ==
    /\ ptr \in StackPtrs
    /\ stackLive
    /\ sres = [op |-> "new", kind |-> "Ok", val |-> len]

\* C19 as stated: a successful stack initialisation leaves the stack empty
\* with top equal to bottom and top_sentinel equal to the supplied bound,
\* also when the stack had been used before.
C19_InitTopIsBottom ==
    \A ptr \in StackPtrs, len \in 1..MaxStackLen :
        StackNewOk(ptr, len) =>
            /\ stack.top = stack.bottom
            /\ stack.top_sentinel = ptr + len - 1
            /\ PopAll(stack, smem) = <<>>

\* C19 amended: a successful stack initialisation leaves the stack empty
\* with top equal to top_sentinel, the supplied bound, from where the stack
\* grows down to bottom; a pop then fails with StackUnderflow, also when the
\* stack had been used before.
C19_InitLeavesStackEmpty ==
    \A ptr \in StackPtrs, len \in 1..MaxStackLen :
        StackNewOk(ptr, len) =>
            /\ stack.top = stack.top_sentinel
            /\ stack.top_sentinel = ptr + len - 1
            /\ PopAll(stack, smem) = <<>>
            /\ Stack_pop(stack, smem).kind = "StackUnderflow"
            /\ FreeSlots(stack, smem) = Stack_size(stack)

\* a stack whose array holds bytes of earlier pushes was initialised again
C19_Witness ==
    /\ \E ptr \in StackPtrs : StackNewOk(ptr, MaxStackLen)
    /\ \E a \in DOMAIN smem : smem[a] # 0
    /\ shist = <<>>

\* C20: immediately after Stack::new(ptr, len) the bottom is ptr, the top
\* sentinel is ptr + (len - 1), and the get-top accessor reports
\* ptr + (len - 1) as well.
C20_NewTopIsTopSentinel ==
    \A ptr \in StackPtrs, len \in 1..MaxStackLen :
        StackNewOk(ptr, len) =>
            /\ basino_get_basino_stack_bottom(stack) = ptr
            /\ basino_get_basino_stack_top_sentinel(stack) = ptr + (len - 1)
            /\ basino_get_basino_stack_top(stack) = ptr + (len - 1)
            /\ Stack_size(stack) = len - 1

\* the first Stack::new, over 2 bytes, returned Ok
C20_Witness ==
    /\ \E ptr \in StackPtrs : StackNewOk(ptr, 2)
    /\ \A a \in DOMAIN smem : smem[a] = 0
    /\ basino_get_basino_stack_top(stack) = stack.data + 1

(***************************************************************************)
(* Claims about the stack in use (SpecStack).                              *)
(***************************************************************************)
\* C21: for a stack built by Stack::new over len bytes size() is len - 1 in
\* every reachable state: it is len - 1 after Stack::new and no push or pop
\* changes it, so it is the capacity and not the number of bytes stored.
C21_SizeIsCapacity ==
    [][/\ (sres'.op = "new" /\ sres'.kind = "Ok")
            => Stack_size(stack') = sres'.val - 1
       /\ (stackLive /\ sres'.op \in {"push", "pop"})
            => Stack_size(stack') = Stack_size(stack)]_vars

\* a stack of capacity 2 holds one byte after a push, a push and a pop
C21_Witness ==
    /\ stackLive
    /\ Len(shist) = 3
    /\ shist[3].op = "pop"
    /\ Stack_size(stack) = 2
    /\ Len(PopAll(stack, smem)) = 1

\* C22: a push that fails with StackOverflow and a pop that fails with
\* StackUnderflow leave bottom, top, top_sentinel and the stored bytes
\* unchanged.
C22_FailedCallsChangeNothing ==
    [][(/\ stackLive
        /\ \/ sres'.op = "push" /\ sres'.kind = "StackOverflow"
           \/ sres'.op = "pop" /\ sres'.kind = "StackUnderflow")
            => /\ stack' = stack
               /\ smem' = smem]_vars

\* a full stack of capacity 2 refused a push of a byte other than the one on
\* top
C22_Witness ==
    /\ stackLive
    /\ Stack_size(stack) = 2
    /\ sres.op = "push"
    /\ sres.kind = "StackOverflow"
    /\ Len(PopAll(stack, smem)) = 2
    /\ sres.val # smem[stack.top]

\* C23: in any reachable stack state that is not full, push(v) followed
\* immediately by pop returns v and restores top and the bytes stored
\* before the push.
C23_PushThenPopRestores ==
    /\ stackLive =>
        \A v \in StackVals :
            LET p == Stack_push(stack, smem, v)
                q == Stack_pop(p.stack, p.mem)
            IN  FreeSlots(stack, smem) > 0
                    => /\ p.kind = "Ok"
                       /\ q.kind = "Ok"
                       /\ q.val = v
                       /\ q.stack = stack
                       /\ PopAll(q.stack, p.mem) = PopAll(stack, smem)
    /\ \A k \in 1..(Len(shist) - 1) :
            (/\ shist[k].op = "push"
             /\ shist[k].kind = "Ok"
             /\ shist[k + 1].op = "pop")
                => /\ shist[k + 1].kind = "Ok"
                   /\ shist[k + 1].val = shist[k].val

\* on a stack that held one byte, a push of another byte was followed by a
\* pop, and the first byte is on top again
C23_Witness ==
    /\ stackLive
    /\ Len(shist) = 3
    /\ shist[1].op = "push"
    /\ shist[2].op = "push"
    /\ shist[3].op = "pop"
    /\ shist[1].val # shist[2].val
    /\ shist[3].val = shist[2].val
    /\ PopAll(stack, smem) = <<shist[1].val>>

(***************************************************************************)
(* Claims about queue initialisation (SpecQueue).                          *)
(***************************************************************************)
\* the last call was a Queue::new over len bytes at ptr that returned Ok
QueueNewOk(ptr, len) ==
    /\ ptr \in QueuePtrs
    /\ queueLive
    /\ qres = [op |-> "new", kind |-> "Ok", val |-> len]

\* C24 as stated: a successful queue initialisation sets head, tail and
\* last_head all equal to start.
C24_InitAllAtStart ==
    \A ptr \in QueuePtrs, len \in 1..MaxQueueLen :
        QueueNewOk(ptr, len) =>
            /\ queue.start = ptr
            /\ queue.head = queue.start
            /\ queue.tail = queue.start
            /\ queue.last_head = queue.start

\* C24 amended: a successful queue initialisation sets head and tail to
\* start and last_head to end, the slot before start in the ring; last_head
\* is start only over a region of one byte.
C24_InitHeadAndTailAtStart ==
    \A ptr \in QueuePtrs, len \in 1..MaxQueueLen :
        QueueNewOk(ptr, len) =>
            /\ queue.start = ptr
            /\ queue.head = queue.start
            /\ queue.tail = queue.start
            /\ queue.last_head = ptr + len - 1
            /\ queue.last_head = queue.start <=> len = 1

\* a queue that had been used was initialised again over MaxQueueLen bytes
C24_Witness ==
    /\ \E ptr \in QueuePtrs : QueueNewOk(ptr, MaxQueueLen)
    /\ \E a \in DOMAIN qmem : qmem[a] # 0
    /\ queue.last_head # queue.head

\* C25: immediately after a queue is created over len bytes get_last_head
\* returns start + len - 1, the end of the region, and get_head and
\* get_tail return start.
C25_NewLastHeadIsEnd ==
    \A ptr \in QueuePtrs, len \in 1..MaxQueueLen :
        QueueNewOk(ptr, len) =>
            /\ Queue_get_last_head(queue) = [kind |-> "Ok", val |-> ptr + len - 1]
            /\ Queue_get_end(queue) = [kind |-> "Ok", val |-> ptr + len - 1]
            /\ Queue_get_head(queue) = [kind |-> "Ok", val |-> ptr]
            /\ Queue_get_tail(queue) = [kind |-> "Ok", val |-> ptr]
            /\ Queue_get_start(queue) = [kind |-> "Ok", val |-> ptr]

\* the first Queue::new, over 4 bytes as BASINO_QUEUE_DATA has them
C25_Witness ==
    /\ \E ptr \in QueuePtrs : QueueNewOk(ptr, 4)
    /\ \A a \in DOMAIN qmem : qmem[a] = 0
    /\ Queue_get_last_head(queue).val = Queue_get_head(queue).val + 3

(***************************************************************************)
(* The result matches of the wrappers as functions of the code alone: the  *)
(* primitive writes a u8, and each wrapper's match is applied to every     *)
(* value of it.                                                            *)
(***************************************************************************)
ResultCodes == 0..255

StackWrappers == {"Stack::new", "Stack::push", "Stack::pop"}

QueueAccessors ==
    {"Queue::get_start", "Queue::get_end", "Queue::get_head",
     "Queue::get_last_head", "Queue::get_tail"}

QueueWrappers == {"Queue::new", "Queue::put", "Queue::get"} \cup QueueAccessors

ILWrappers ==
    {"Interpreter::new", "Interpreter::get_next_bytecode",
     "Interpreter::run", "Interpreter::exec"}

\* a wrapper of stack.rs matches the code c
StackMatchAct ==
    /\ \E w \in StackWrappers, c \in ResultCodes :
          sres' = [op |-> w, val |-> c,
                   kind |-> CASE w = "Stack::new"  -> StackNewKind(c)
                              [] w = "Stack::push" -> StackPushKind(c)
                              [] w = "Stack::pop"  -> StackPopKind(c)]
    /\ UNCHANGED <<stack, stackLive, smem, shist, queueVars, ilVars>>

\* a wrapper of queue.rs matches the code c
QueueMatchAct ==
    /\ \E w \in QueueWrappers, c \in ResultCodes :
          sres' = [op |-> w, val |-> c,
                   kind |-> CASE w = "Queue::new" -> QueueNewKind(c)
                              [] w = "Queue::put" -> QueuePutKind(c)
                              [] w = "Queue::get" -> QueueGetKind(c)
                              [] OTHER            -> QueueAccessorKind(c)]
    /\ UNCHANGED <<stack, stackLive, smem, shist, queueVars, ilVars>>

\* a wrapper of il.rs matches the code c
ILMatchAct ==
    /\ \E w \in ILWrappers, c \in ResultCodes :
          sres' = [op |-> w, val |-> c,
                   kind |-> CASE w = "Interpreter::new" -> ILNewKind(c)
                              [] w = "Interpreter::get_next_bytecode" -> ILGetNextKind(c)
                              [] w = "Interpreter::run"  -> ILRunKind(c)
                              [] w = "Interpreter::exec" -> ILExecKind(c)]
    /\ UNCHANGED <<stack, stackLive, smem, shist, queueVars, ilVars>>

NextMatch == StackMatchAct \/ QueueMatchAct \/ ILMatchAct

SpecMatch == Init /\ [][NextMatch]_vars

Matched == sres.op \in StackWrappers \cup QueueWrappers \cup ILWrappers

\* the failure kind a wrapper has at code 2, "Unknown" where its match has
\* no arm for 2
KindAtTwo ==
    CASE sres.op \in {"Stack::new", "Queue::new", "Interpreter::new",
                      "Interpreter::run", "Interpreter::exec"} -> "InvalidArguments"
      [] sres.op = "Stack::push" -> "StackOverflow"
      [] sres.op = "Stack::pop"  -> "StackUnderflow"
      [] sres.op = "Queue::put"  -> "QueueFull"
      [] sres.op = "Queue::get"  -> "QueueEmpty"
      [] OTHER                   -> "Unknown"

\* C26 as stated: every wrapper returns Ok for code 0 only, NullPointer for
\* code 1 and, where the call can fail in its own way, that failure for code
\* 2; codes above the ones any wrapper names are Unknown.
C26_OneFixedTable ==
    Matched =>
        /\ sres.kind = "Ok" <=> sres.val = 0
        /\ sres.val = 1 => sres.kind = "NullPointer"
        /\ (sres.val = 2 /\ sres.op \notin QueueAccessors) =>
               sres.kind \in {"InvalidArguments", "QueueFull", "QueueEmpty",
                              "StackOverflow", "StackUnderflow", "EndOfProgram"}
        /\ sres.val > 6 => sres.kind = "Unknown"

\* C26 amended: Ok for code 0 only and NullPointer for code 1 in every
\* wrapper; code 2 is the call's own failure in new, push, pop, put, get, run
\* and exec, but Unknown in get_next_bytecode and the queue accessors;
\* get_next_bytecode has EndOfProgram at 3, run and exec InstructionNotFound
\* at 3, run EndOfProgram at 4 and Stopped at 5, exec Stopped at 4 and
\* StackOverflow at 5; every other code is Unknown.
C26_TablePerWrapper ==
    Matched =>
        /\ sres.kind = "Ok" <=> sres.val = 0
        /\ sres.val = 1 => sres.kind = "NullPointer"
        /\ sres.val = 2 => sres.kind = KindAtTwo
        /\ sres.val = 3 =>
               sres.kind = CASE sres.op = "Interpreter::get_next_bytecode" -> "EndOfProgram"
                             [] sres.op \in {"Interpreter::run", "Interpreter::exec"} -> "InstructionNotFound"
                             [] OTHER -> "Unknown"
        /\ sres.val = 4 =>
               sres.kind = CASE sres.op = "Interpreter::run"  -> "EndOfProgram"
                             [] sres.op = "Interpreter::exec" -> "Stopped"
                             [] OTHER -> "Unknown"
        /\ sres.val = 5 =>
               sres.kind = CASE sres.op = "Interpreter::run"  -> "Stopped"
                             [] sres.op = "Interpreter::exec" -> "StackOverflow"
                             [] OTHER -> "Unknown"
        /\ sres.val > 5 => sres.kind = "Unknown"

\* get_next_bytecode was handed code 2 and reported Unknown
C26_Witness ==
    sres = [op |-> "Interpreter::get_next_bytecode", val |-> 2, kind |-> "Unknown"]

(***************************************************************************)
(* Claims about the interpreter's states (SpecIL).                         *)
(***************************************************************************)
\* C27: once the state is Stopped, a get_next_bytecode, exec or run call
\* fails (EndOfProgram, Stopped, Stopped) and changes neither the state nor
\* the cursor nor the stack.
C27_StoppedIsAbsorbing ==
    [][(/\ ilLive
        /\ interp.state = "Stopped"
        /\ ires'.op \in {"get_next_bytecode", "exec", "run"})
           => /\ interp' = interp
              /\ stack' = stack
              /\ smem' = smem
              /\ ires'.kind = (IF ires'.op = "get_next_bytecode"
                               THEN "EndOfProgram" ELSE "Stopped")]_vars

\* a program that pushed a byte has stopped, and a later call of each of the
\* three kinds has found it stopped
C27_Witness ==
    /\ ilLive
    /\ interp.state = "Stopped"
    /\ interp.byte_code_ptr > interp.byte_code
    /\ Len(PopAll(stack, smem)) >= 1
    /\ ilCalls >= 2
    /\ ires.op = "exec"
    /\ ires.kind = "Stopped"

C29_TopWithinBounds ==
    [][stackLive' =>
          /\ stack'.bottom <= stack'.top
          /\ stack'.top <= stack'.top_sentinel
          /\ (stackLive /\ sres'.op = "push") =>
                 \A a \in DOMAIN smem :
                     smem'[a] # smem[a] =>
                         (stack.bottom <= a /\ a < stack.top_sentinel)
          /\ (stackLive /\ sres'.op = "pop" /\ sres'.kind = "Ok") =>
                 /\ stack.bottom <= stack.top
                 /\ stack.top < stack.top_sentinel
                 /\ sres'.val = smem[stack.top]]_vars

\* a stack of two slots or more was filled, refused a push, and was emptied
\* down to a pop that underflowed
C29_Witness ==
    /\ stackLive
    /\ stack.top_sentinel - stack.bottom >= 2
    /\ stack.top = stack.top_sentinel
    /\ \E i \in 1..Len(shist) : shist[i].kind = "StackOverflow"
    /\ sres.op = "pop"
    /\ sres.kind = "StackUnderflow"

\* C30: after a successful Queue::new and any put and get calls, head and
\* tail lie within [start, end], and no put or get changes start or end:
\* they stay the bounds of the region the queue was created over.
C30_HeadAndTailWithinRegion ==
    [][queueLive' =>
          /\ queue'.start <= queue'.end
          /\ queue'.start <= queue'.head /\ queue'.head <= queue'.end
          /\ queue'.start <= queue'.tail /\ queue'.tail <= queue'.end
          /\ queue'.start \in QueuePtrs
          /\ queue'.end = queue'.start + queue'.queue_len - 1
          /\ (queueLive /\ qres'.op \in {"put", "get"}) =>
                 /\ queue'.start = queue.start
                 /\ queue'.end = queue.end]_vars

\* head and tail have both wrapped round the end of the region
C30_Witness ==
    /\ queueLive
    /\ queue.end > queue.start
    /\ Len(qput) > queue.end - queue.start + 1
    /\ Len(qgot) > queue.end - queue.start + 1
    /\ qres.op = "get"
    /\ qres.kind = "Ok"
    /\ queue.head = queue.start

(***************************************************************************)
(* Claims about the cursor and the fetch (SpecIL).                         *)
(***************************************************************************)
\* C31: after any get_next_bytecode, exec and run calls the cursor lies
\* within the region, byte_code <= byte_code_ptr <= byte_code_end, also
\* when the last byte of the region is an LB opcode.
C31_CursorWithinRegion ==
    ilLive =>
        /\ interp.byte_code \in CodePtrs
        /\ interp.byte_code_end = interp.byte_code + Len(code) - 1
        /\ interp.byte_code <= interp.byte_code_ptr
        /\ interp.byte_code_ptr <= interp.byte_code_end

\* run has come to the end of a region whose last byte is an LB opcode
C31_Witness ==
    /\ ilLive
    /\ Len(code) >= 2
    /\ code[Len(code)] = OpLB
    /\ ires.op = "run"
    /\ interp.byte_code_ptr = interp.byte_code_end

\* C32: a get_next_bytecode that returns Ok has moved the cursor up by one
\* byte and returns the byte that was under the old cursor; the state, the
\* region, the stack and the queue are as they were.
C32_FetchAdvancesByOne ==
    [][(/\ ilLive
        /\ ires'.op = "get_next_bytecode"
        /\ ires'.kind = "Ok")
           => /\ interp'.byte_code_ptr = interp.byte_code_ptr + 1
              /\ ires'.val = ByteAt(interp, code, interp.byte_code_ptr)
              /\ interp'.state = interp.state
              /\ interp'.byte_code = interp.byte_code
              /\ interp'.byte_code_end = interp.byte_code_end
              /\ stack' = stack /\ smem' = smem
              /\ queue' = queue /\ qmem' = qmem]_vars

\* the second byte of a region was fetched, an LB opcode with its operand
\* still to come
C32_Witness ==
    /\ ilLive
    /\ ires = [op |-> "get_next_bytecode", kind |-> "Ok", val |-> OpLB]
    /\ interp.byte_code_ptr = interp.byte_code + 2
    /\ interp.byte_code_ptr < interp.byte_code_end
    /\ interp.state = "Running"

\* C33: after every exec call that returns Ok the state is Running.
C33_ExecOkIsRunning ==
    (ilLive /\ ires.op = "exec" /\ ires.kind = "Ok") =>
        interp.state = "Running"

\* exec(LB) has pushed its operand
C33_Witness ==
    /\ ilLive
    /\ ires = [op |-> "exec", kind |-> "Ok", val |-> OpLB]
    /\ interp.byte_code_ptr > interp.byte_code
    /\ Len(PopAll(stack, smem)) >= 1
    /\ interp.state = "Running"

(***************************************************************************)
(* run() step by step: the loop of basino_il_run taken one fetch and one   *)
(* instruction at a time.  ires.op is the position of the call ("run" when *)
(* it has returned), ires.val the number of fetches the call has made so   *)
(* far, operand fetches included, ires.byte the opcode just fetched and    *)
(* ires.want what Interpreter_run yields for the state the call began in.  *)
(***************************************************************************)
RunEntry(it, bytes, st, mem) ==
    [op |-> "run:entry", kind |-> "none", val |-> 0, byte |-> 0,
     want |-> Interpreter_run(it, bytes, st, mem)]

InitRun ==
    /\ \E ptr \in StackPtrs, len \in 2..MaxStackLen, k \in 0..MaxStackLen :
            LET zero == [a \in StackBuffer(ptr) |-> 0]
                r == PushTimes(Stack_new(ptr, len).stack, zero, 5, k)
            IN  /\ k <= len - 1
                /\ stack = r.stack
                /\ smem = r.mem
    /\ stackLive = TRUE
    /\ sres = NoResult
    /\ shist = <<>>
    /\ \E ptr \in QueuePtrs :
            /\ queue = Queue_new(ptr, MaxQueueLen).queue
            /\ qmem = [a \in QueueBuffer(ptr) |-> 0]
    /\ queueLive = TRUE
    /\ qres = NoResult
    /\ qput = <<>>
    /\ qgot = <<>>
    /\ \E ptr \in CodePtrs, bytes \in Programs :
            /\ Len(bytes) >= 1
            /\ interp = Interpreter_new(ptr, Len(bytes)).interp
            /\ code = bytes
    /\ ilLive = TRUE
    /\ ires = RunEntry(interp, code, stack, smem)
    /\ ilCalls = 1
    /\ onlyGets = FALSE
    /\ ranOk = FALSE

\* the entry of basino_il_run: a stopped interpreter is refused with code 5
RunEnterAct ==
    /\ ires.op = "run:entry"
    /\ ires' = IF interp.state = "Stopped"
               THEN [ires EXCEPT !.op = "run", !.kind = ILRunKind(5)]
               ELSE [ires EXCEPT !.op = "run:fetch"]
    /\ UNCHANGED <<interp, ilLive, code, ilCalls, onlyGets, ranOk>>
    /\ UNCHANGED <<stackVars, queueVars>>

\* the head of the loop: fetch the next opcode; a failed fetch ends the run
\* with success
RunFetchAct ==
    LET f == basino_il_get_next_bytecode(interp, code) IN
    /\ ires.op = "run:fetch"
    /\ interp' = f.interp
    /\ ires' = IF f.result # 0
               THEN [ires EXCEPT !.op = "run", !.kind = ILRunKind(0),
                                 !.val = @ + 1]
               ELSE [ires EXCEPT !.op = "run:exec", !.val = @ + 1,
                                 !.byte = f.res]
    /\ ranOk' = (ranOk \/ f.result # 0)
    /\ UNCHANGED <<ilLive, code, ilCalls, onlyGets>>
    /\ UNCHANGED <<stackVars, queueVars>>

\* the body of the loop: execute the opcode; a failed instruction ends the
\* run with its code.  LB makes one more fetch, that of its operand.
RunExecAct ==
    LET e == basino_il_exec(interp, code, stack, smem, ires.byte)
        n == IF ires.byte = OpLB THEN 1 ELSE 0
    IN  /\ ires.op = "run:exec"
        /\ interp' = e.interp
        /\ stack' = e.stack
        /\ smem' = e.mem
        /\ ires' = IF e.code # 0
                   THEN [ires EXCEPT !.op = "run", !.kind = ILRunKind(e.code),
                                     !.val = @ + n]
                   ELSE [ires EXCEPT !.op = "run:fetch", !.val = @ + n]
        /\ UNCHANGED <<ilLive, code, ilCalls, onlyGets, ranOk>>
        /\ UNCHANGED <<stackLive, sres, shist, queueVars>>

\* the caller calls run() again on the interpreter as the last call left it
RunCallAct ==
    /\ ires.op = "run"
    /\ ilCalls < MaxCalls
    /\ ires' = RunEntry(interp, code, stack, smem)
    /\ ilCalls' = ilCalls + 1
    /\ UNCHANGED <<interp, ilLive, code, onlyGets, ranOk>>
    /\ UNCHANGED <<stackVars, queueVars>>

NextRun == RunEnterAct \/ RunFetchAct \/ RunExecAct \/ RunCallAct

\* the steps of a call that has begun are taken; the next call is the
\* caller's choice
SpecRun ==
    /\ InitRun
    /\ [][NextRun]_vars
    /\ WF_vars(RunEnterAct)
    /\ WF_vars(RunFetchAct)
    /\ WF_vars(RunExecAct)

\* C34: every run() call returns, after at most Len(code) + 1 fetches, with
\* Ok and the state Stopped or with an error; the steps end where
\* Interpreter_run ends.
C34_RunTerminates ==
    /\ [](ires.val <= Len(code) + 1)
    /\ []((ires.op = "run" /\ ires.kind = "Ok") => interp.state = "Stopped")
    /\ [](ires.op = "run" =>
             /\ ires.kind = ires.want.kind
             /\ interp = ires.want.interp
             /\ stack = ires.want.stack
             /\ smem = ires.want.mem)
    /\ [](ires.op = "run:entry" => <>(ires.op = "run"))

\* a first run() over a region of five bytes or more has returned Ok after
\* two instructions, one of them an LB
C34_Witness ==
    /\ ires.op = "run"
    /\ ires.kind = "Ok"
    /\ ilCalls = 1
    /\ Len(code) >= 5
    /\ ires.val >= 4
    /\ interp.state = "Stopped"

(***************************************************************************)
(* Claims about failed queue calls and the interpreter's queue.            *)
(***************************************************************************)
\* C35: a put that fails with QueueFull and a get that fails with
\* QueueEmpty leave head, tail, last_head and the stored bytes unchanged, so
\* a put or a get made after the failed call gives what it would have given
\* in its place.
C35_FailedQueueCallsChangeNothing ==
    [][(/\ queueLive
        /\ \/ (qres'.op = "put" /\ qres'.kind = "QueueFull")
           \/ (qres'.op = "get" /\ qres'.kind = "QueueEmpty"))
           => /\ queue' = queue
              /\ qmem' = qmem
              /\ Queue_get(queue', qmem') = Queue_get(queue, qmem)
              /\ \A v \in QueueVals :
                     Queue_put(queue', qmem', v) = Queue_put(queue, qmem, v)]_vars

\* a queue that had been filled and drained refused a get: it is empty with
\* the head, the tail and the last head away from where Queue::new put them
C35_Witness ==
    /\ queueLive
    /\ qres.op = "get"
    /\ qres.kind = "QueueEmpty"
    /\ Len(qgot) >= 2
    /\ queue.head # queue.start
    /\ queue.last_head # queue.end
    /\ queue.last_head # queue.head

\* the interpreter is bound to a queue that is in use: two bytes were put
\* and one was taken before Interpreter::new
InitILQ ==
    /\ \E ptr \in StackPtrs, len \in 2..MaxStackLen, k \in 0..MaxStackLen :
            LET zero == [a \in StackBuffer(ptr) |-> 0]
                r == PushTimes(Stack_new(ptr, len).stack, zero, 5, k)
            IN  /\ k <= len - 1
                /\ stack = r.stack
                /\ smem = r.mem
    /\ stackLive = TRUE
    /\ sres = NoResult
    /\ shist = <<>>
    /\ \E ptr \in QueuePtrs :
            LET zero == [a \in QueueBuffer(ptr) |-> 0]
                p1 == Queue_put(Queue_new(ptr, MaxQueueLen).queue, zero, 1)
                p2 == Queue_put(p1.queue, p1.mem, 2)
                g == Queue_get(p2.queue, p2.mem)
            IN  /\ queue = g.queue
                /\ qmem = p2.mem
                /\ qres = [op |-> "get", kind |-> g.kind, val |-> g.val]
    /\ queueLive = TRUE
    /\ qput = <<1, 2>>
    /\ qgot = <<1>>
    /\ interp = NullInterpreter
    /\ ilLive = FALSE
    /\ code = <<>>
    /\ ires = NoResult
    /\ ilCalls = 0
    /\ onlyGets = TRUE
    /\ ranOk = FALSE

SpecILQ == InitILQ /\ [][NextIL]_vars

OperandBytes == 0..255

\* the region with the byte under the cursor replaced by b
WithOperand(b) ==
    [code EXCEPT ![interp.byte_code_ptr - interp.byte_code + 1] = b]

\* an LB opcode was just fetched, its operand is under the cursor with a byte
\* of the region after it, and the stack has a free slot
OperandNext ==
    /\ ilLive
    /\ ires = [op |-> "get_next_bytecode", kind |-> "Ok", val |-> OpLB]
    /\ interp.byte_code_ptr < interp.byte_code_end
    /\ FreeSlots(stack, smem) > 0

WithLastByte(b) == [code EXCEPT ![Len(code)] = b]

Stack_new_checked(array, len) ==
    IF len = 0
    THEN [kind |-> "Panic", stack |-> NullStack]
    ELSE Stack_new(array, len)

StackNewAnyAct ==
    \E ptr \in StackPtrs, len \in 0..MaxStackLen, checks \in BOOLEAN :
        LET r == IF checks THEN Stack_new_checked(ptr, len)
                 ELSE Stack_new(ptr, len)
        IN  /\ stack' = r.stack
            /\ stackLive' = (r.kind = "Ok")
            /\ sres' = [op |-> "new", kind |-> r.kind, val |-> len]
            /\ shist' = <<>>
            /\ UNCHANGED smem
            /\ UNCHANGED <<queueVars, ilVars>>

NextStackNew == StackNewAnyAct \/ StackPushAct \/ StackPopAct

SpecStackNew == Init /\ [][NextStackNew]_vars

====
